---- MODULE Spec2Model ----
(***************************************************************************)
(* A model of the agent-zero tensor bridge of crystalcog:                  *)
(*   - the aligned block pool and the two tensor allocators (SpecPool),    *)
(*   - the vectorized elementwise kernels of opencog-ggml-bridge.c and the *)
(*     scalar ones of cognitive-tensors.c (SpecCombine),                   *)
(*   - cognitive_pattern_match of cognitive-tensors.c (SpecMatch),         *)
(*   - the hypergraph and its codec (SpecHypergraph, SpecCodec),           *)
(*   - the cognitive kernel of cognitive-tensors.c (SpecKernel).           *)
(*                                                                         *)
(* Numbers.  C floats are modelled as exact dyadic rationals: the integer  *)
(* x stands for the float x / ONE.  Every value the model produces is a    *)
(* multiple of 1/ONE small enough to be exact in a 24-bit mantissa, so the *)
(* float operations of the code ( + , * 0.5f , > ) are exact on them.      *)
(* size_t is modelled with SizeBits bits instead of 64.                    *)
(***************************************************************************)
EXTENDS Integers, Sequences, FiniteSets, TLC

VARIABLES
    tensor_pool,    \* the static TensorMemoryPool of opencog-ggml-bridge.c
    zeroAllocNull,  \* build property: an allocation of 0 bytes yields NULL
    served,         \* history: block index of every pool-served tensor, in order
    ret,            \* the tensor the last allocator or kernel call returned
    hg,             \* the hypergraph the caller holds
    tensor,         \* the tensor the caller holds
    encSrc,         \* history: the hypergraph `tensor` was encoded from, if any
    kernels,        \* the heap of cognitive_kernel_t records, by address
    idlog,          \* history: the kernel_id of every kernel created, in order
    last            \* the last operation, its arguments and the state before it

vars ==
    <<tensor_pool, zeroAllocNull, served, ret, hg, tensor, encSrc, kernels,
      idlog, last>>

codecVars == <<hg, tensor, encSrc>>
kernelVars == <<kernels, idlog>>

(***************************************************************************)
(* Bounds of the model.                                                    *)
(***************************************************************************)
\* Pool capacity.  The source sets TENSOR_POOL_SIZE to 1024
\* (opencog-ggml-bridge.c:18); the pool's logic uses it only as the length
\* of its index arrays, and the model runs it with a small capacity.
TENSOR_POOL_SIZE == 3
\* Width of size_t in the model (64 in the build).
SizeBits == 20
\* Greatest number of pool-served tensors a run is followed for
MaxServed == 4

(***************************************************************************)
(* Program constants.                                                      *)
(***************************************************************************)
TENSOR_BLOCK_SIZE == 16384
SizeofFloat == 4
SimdWidth == 8

SizeMod == 2 ^ SizeBits
\* The largest request the system allocator can ever satisfy (the analogue
\* of PTRDIFF_MAX): a size_t obtained from a negative int lies above it.
AllocMax == SizeMod \div 2

\* (size_t)x for an int x
SizeT(x) == x % SizeMod

\* C's % on ints truncates toward zero
CRem(a, b) == IF a >= 0 THEN a % b ELSE -((-a) % b)

NullTensor == [isnull |-> TRUE]

NullHg == [isnull |-> TRUE]

\* Greatest number of kernel records the heap holds at a time
MaxKernels == 2
\* Greatest number of kernels created in a run
MaxCreates == 2

\* Addresses malloc may return for a cognitive_kernel_t; 0 is NULL
KAddrs == 1..MaxKernels

FreeSlot == [live |-> FALSE]

NoKernels == [a \in KAddrs |-> FreeSlot]

Zeros(n) == [i \in 1..n |-> 0]

BlockIdx == 0..(TENSOR_POOL_SIZE - 1)

(***************************************************************************)
(* static TensorMemoryPool tensor_pool = {0};                              *)
(* blocks[i] is modelled by its presence (non-NULL) only.                  *)
(***************************************************************************)
PoolZero ==
    [ blocks           |-> [i \in BlockIdx |-> FALSE],
      free_blocks      |-> [i \in BlockIdx |-> 0],
      allocated_blocks |-> [i \in BlockIdx |-> 0],
      free_count       |-> 0,
      allocated_count  |-> 0,
      total_allocated  |-> 0,
      peak_usage       |-> 0 ]

\* init_tensor_pool.  got[i]: aligned_alloc(32, TENSOR_BLOCK_SIZE) returned
\* a block for blocks[i]; the code does not test the result.  Every index
\* becomes free; allocated_blocks is left as it is.
init_tensor_pool(p, got) ==
    [ p EXCEPT !.blocks = got,
               !.free_blocks = [i \in BlockIdx |-> i],
               !.free_count = TENSOR_POOL_SIZE,
               !.allocated_count = 0,
               !.total_allocated = 0,
               !.peak_usage = 0 ]

\* aligned_alloc(32, size) of the fallback path: NULL when the system has
\* no memory (sysOk false), when the size cannot be satisfied at all, and,
\* on builds where a zero-size allocation yields NULL, when size = 0.
SysAllocNone(size, sysOk) == FALSE

SysAllocOk(size, sysOk) ==
    /\ sysOk
    /\ size < AllocMax
    /\ (size = 0 => ~zeroAllocNull)

\* ggml_new_tensor_2d_optimized.  got: what the block allocations of
\* init_tensor_pool return, should this call run it; recOk: malloc of the
\* tensor record succeeds; sysOk: the fallback aligned_alloc has memory.
\* A pool block that is NULL is taken from the free list all the same, and
\* the call then returns NULL.
\* Returns the pool after the call and the tensor returned (or NullTensor).
pool_take_wrong(p1, data_size) ==
    LET block_idx == p1.free_blocks[p1.free_count - 1]
    IN  [ p1 EXCEPT !.allocated_blocks[p1.allocated_count] = block_idx,
                    !.allocated_count = p1.allocated_count + 1,
                    !.total_allocated = SizeT(p1.total_allocated + data_size),
                    !.peak_usage =
                        IF SizeT(p1.total_allocated + data_size) > p1.peak_usage
                        THEN SizeT(p1.total_allocated + data_size)
                        ELSE p1.peak_usage ]

pool_take(p1, data_size) ==
    LET block_idx == p1.free_blocks[p1.free_count - 1]
    IN  [ p1 EXCEPT !.free_count = p1.free_count - 1,
                    !.allocated_blocks[p1.allocated_count] = block_idx,
                    !.allocated_count = p1.allocated_count + 1,
                    !.total_allocated = SizeT(p1.total_allocated + data_size),
                    !.peak_usage =
                        IF SizeT(p1.total_allocated + data_size) > p1.peak_usage
                        THEN SizeT(p1.total_allocated + data_size)
                        ELSE p1.peak_usage ]

ggml_new_tensor_2d_optimized(p, ne0, ne1, got, recOk, sysOk) ==
    LET p1 == IF ~p.blocks[0] THEN init_tensor_pool(p, got) ELSE p
        data_size == SizeT(SizeT(ne0 * ne1) * SizeofFloat)
        usePool == data_size <= TENSOR_BLOCK_SIZE /\ p1.free_count > 0
        block_idx == p1.free_blocks[p1.free_count - 1]
    IN  IF ~recOk
        THEN [pool |-> p1, tensor |-> NullTensor]
        ELSE IF usePool
        THEN [ pool   |-> pool_take(p1, data_size),
               tensor |-> IF p1.blocks[block_idx]
                          THEN [ isnull |-> FALSE,
                                 ne     |-> <<ne0, ne1, 1, 1>>,
                                 origin |-> "pool",
                                 block  |-> block_idx,
                                 data   |-> Zeros(data_size \div SizeofFloat) ]
                          ELSE NullTensor ]
        ELSE IF SysAllocOk(data_size, sysOk)
        THEN [ pool   |-> p1,
               tensor |-> [ isnull |-> FALSE,
                            ne     |-> <<ne0, ne1, 1, 1>>,
                            origin |-> "sys",
                            block  |-> -1,
                            data   |-> Zeros(data_size \div SizeofFloat) ] ]
        ELSE [pool |-> p1, tensor |-> NullTensor]

(***************************************************************************)
(* cognitive-tensors.c: the plain allocator and the scalar kernels.        *)
(***************************************************************************)
\* calloc(nmemb, sizeof(float)) with nmemb = (size_t)(ne0 * ne1): NULL when
\* there is no memory, when nmemb * size overflows or cannot be satisfied,
\* and, on builds where a zero-size allocation yields NULL, when nmemb = 0.
CallocOk(nmemb, sysOk) ==
    /\ sysOk
    /\ nmemb * SizeofFloat < AllocMax
    /\ (nmemb = 0 => ~zeroAllocNull)

\* ggml_new_tensor_2d
ggml_new_tensor_2d(ne0, ne1, recOk, sysOk) ==
    IF ~recOk THEN NullTensor
    ELSE IF CallocOk(SizeT(ne0 * ne1), sysOk)
    THEN [ isnull |-> FALSE,
           ne     |-> <<ne0, ne1, 1, 1>>,
           origin |-> "sys",
           block  |-> -1,
           data   |-> Zeros(SizeT(ne0 * ne1)) ]
    ELSE NullTensor

(***************************************************************************)
(* Elementwise kernels.  A read of x_data[i] beyond the buffer of x is     *)
(* undefined; it is modelled as yielding an arbitrary value, drawn from    *)
(* the junk seed of the call.                                              *)
(***************************************************************************)
JunkAt(junk, i) == (junk + i) % 3

Rd(t, i, junk) == IF i < Len(t.data) THEN t.data[i + 1] ELSE JunkAt(junk, i)

ApplyOp(op, x, y) == IF op = "mul" THEN x * y ELSE x + y

\* One store result_data[i] = v; w counts the stores to each index
Store(res, i, v) ==
    [ v |-> [res.v EXCEPT ![i + 1] = v],
      w |-> [res.w EXCEPT ![i + 1] = @ + 1] ]

\* for (int i = from; i < size; i++) result_data[i] = a_data[i] op b_data[i];
RECURSIVE ScalarLoop(_, _, _, _, _, _, _)
ScalarLoop(op, a, b, junk, i, size, res) ==
    IF i >= size THEN res
    ELSE ScalarLoop(op, a, b, junk, i + 1, size,
                    Store(res, i, ApplyOp(op, Rd(a, i, junk), Rd(b, i, junk))))

\* One 8-lane group: load a[i..i+7], b[i..i+7], combine, store result[i..i+7]
RECURSIVE SimdLanes(_, _, _, _, _, _, _)
SimdLanes(op, a, b, junk, i, lane, res) ==
    IF lane >= SimdWidth THEN res
    ELSE SimdLanes(op, a, b, junk, i, lane + 1,
                   Store(res, i + lane,
                         ApplyOp(op, Rd(a, i + lane, junk), Rd(b, i + lane, junk))))

\* for (int i = 0; i < simd_size; i += 8) { ... }
RECURSIVE SimdLoop(_, _, _, _, _, _, _)
SimdLoop(op, a, b, junk, i, simd_size, res) ==
    IF i >= simd_size THEN res
    ELSE SimdLoop(op, a, b, junk, i + SimdWidth, simd_size,
                  SimdLanes(op, a, b, junk, i, 0, res))

\* simd_size = size - (size % 8)
SimdSizeWrong(size) == size - CRem(size, SimdWidth - 1)

SimdSize(size) == size - CRem(size, SimdWidth)

NoResult(p) ==
    [pool |-> p, tensor |-> NullTensor, writes |-> <<>>, bread |-> -1]

\* The body shared by ggml_mul_simd and ggml_add_simd.  bread is the
\* greatest index of b_data the call read (-1: none).
combine_simd(op, p, a, b, junk, got, recOk, sysOk) ==
    IF a.isnull \/ b.isnull THEN NoResult(p)
    ELSE
    LET r == ggml_new_tensor_2d_optimized(p, a.ne[1], a.ne[2], got, recOk, sysOk)
        size == a.ne[1] * a.ne[2]
        simd_size == SimdSize(size)
        res0 == [v |-> r.tensor.data, w |-> Zeros(Len(r.tensor.data))]
        res1 == SimdLoop(op, a, b, junk, 0, simd_size, res0)
        res2 == ScalarLoop(op, a, b, junk, simd_size, size, res1)
    IN  IF r.tensor.isnull THEN NoResult(r.pool)
        ELSE [ pool   |-> r.pool,
               tensor |-> [r.tensor EXCEPT !.data = res2.v],
               writes |-> res2.w,
               bread  |-> size - 1 ]

ggml_mul_simd(p, a, b, junk, got, recOk, sysOk) ==
    combine_simd("mul", p, a, b, junk, got, recOk, sysOk)

ggml_add_simd(p, a, b, junk, got, recOk, sysOk) ==
    combine_simd("add", p, a, b, junk, got, recOk, sysOk)

\* The body shared by ggml_mul and ggml_add of cognitive-tensors.c
combine_scalar(op, p, a, b, junk, recOk, sysOk) ==
    IF a.isnull \/ b.isnull THEN NoResult(p)
    ELSE
    LET t == ggml_new_tensor_2d(a.ne[1], a.ne[2], recOk, sysOk)
        size == a.ne[1] * a.ne[2]
        res0 == [v |-> t.data, w |-> Zeros(Len(t.data))]
        res1 == ScalarLoop(op, a, b, junk, 0, size, res0)
    IN  IF t.isnull THEN NoResult(p)
        ELSE [ pool   |-> p,
               tensor |-> [t EXCEPT !.data = res1.v],
               writes |-> res1.w,
               bread  |-> size - 1 ]

ggml_mul(p, a, b, junk, recOk, sysOk) ==
    combine_scalar("mul", p, a, b, junk, recOk, sysOk)

ggml_add(p, a, b, junk, recOk, sysOk) ==
    combine_scalar("add", p, a, b, junk, recOk, sysOk)

(***************************************************************************)
(* SpecPool: the pool and the two allocators.                              *)
(***************************************************************************)
\* Extents a caller may pass to the allocators
Extents == {-1, 0, 1, 64, 65}

\* The pairs <<ne0, ne1>> a caller passes: squares and columns
ExtentPairs == { e \in Extents \X Extents : e[1] = e[2] \/ e[2] = 1 }

\* Shapes and contents of the operands of the elementwise kernels
AShapes == { <<1, 1>>, <<3, 1>>, <<3, 3>>, <<4, 4>> }
BShapes == { <<1, 1>>, <<3, 1>>, <<1, 3>>, <<3, 3>>, <<4, 4>> }
Seeds == {0, 1}

Operand(shape, seed) ==
    [ isnull |-> FALSE,
      ne     |-> <<shape[1], shape[2], 1, 1>>,
      origin |-> "sys",
      block  |-> -1,
      data   |-> [i \in 1..(shape[1] * shape[2]) |-> (seed + i) % 3] ]

OperandsA == { Operand(sh, 1) : sh \in AShapes }
OperandsB == { Operand(sh, s) : sh \in BShapes, s \in Seeds }

\* The calls <<a, b, junk>> a caller makes: operands of the same extents
\* with any contents of b, and operands of different extents, where the
\* junk seed varies if b's buffer is the shorter one
CombineCalls ==
    { c \in OperandsA \X OperandsB \X {0} : c[1].ne = c[2].ne }
    \cup { c \in OperandsA \X { Operand(sh, 0) : sh \in BShapes } \X Seeds :
             /\ c[1].ne # c[2].ne
             /\ (c[3] # 0 => Len(c[2].data) < Len(c[1].data)) }

\* What the block allocations of init_tensor_pool may return: every block,
\* none, and every block but blocks[0]
AllGot == [i \in BlockIdx |-> TRUE]

InitOutcomes ==
    { AllGot,
      [i \in BlockIdx |-> FALSE],
      [i \in BlockIdx |-> i # 0] }

NoOp ==
    [ op |-> "none", ne0 |-> 0, ne1 |-> 0, a |-> NullTensor, b |-> NullTensor,
      junk |-> 0, recOk |-> TRUE, sysOk |-> TRUE, pre |-> PoolZero,
      writes |-> <<>>, bread |-> -1 ]

InitPool ==
    /\ tensor_pool = PoolZero
    /\ zeroAllocNull \in BOOLEAN
    /\ served = <<>>
    /\ ret = NullTensor
    /\ hg = NullHg
    /\ tensor = NullTensor
    /\ encSrc = NullHg
    /\ kernels = NoKernels
    /\ idlog = <<>>
    /\ last = NoOp

ServedAfter(t) ==
    IF ~t.isnull /\ t.origin = "pool" THEN Append(served, t.block) ELSE served

\* A caller allocates a tensor from the pool-backed allocator.  The block
\* allocations have an outcome only in a call that runs init_tensor_pool.
\* The history of pool-served tensors is followed up to MaxServed entries.
AllocOptimized ==
    \E e \in ExtentPairs, recOk \in BOOLEAN, sysOk \in BOOLEAN,
       got \in IF tensor_pool.blocks[0] THEN {AllGot} ELSE InitOutcomes :
        LET ne0 == e[1]
            ne1 == e[2]
            r == ggml_new_tensor_2d_optimized(tensor_pool, ne0, ne1, got,
                                              recOk, sysOk)
        IN  /\ Len(served) < MaxServed
            /\ tensor_pool' = r.pool
            /\ ret' = r.tensor
            /\ served' = ServedAfter(r.tensor)
            /\ last' = [ NoOp EXCEPT !.op = "alloc_opt", !.ne0 = ne0, !.ne1 = ne1,
                                     !.recOk = recOk, !.sysOk = sysOk,
                                     !.pre = tensor_pool ]
            /\ UNCHANGED <<zeroAllocNull, codecVars, kernelVars>>

\* A caller allocates a tensor from the plain allocator
AllocPlain ==
    \E e \in ExtentPairs, recOk \in BOOLEAN, sysOk \in BOOLEAN :
        /\ ret' = ggml_new_tensor_2d(e[1], e[2], recOk, sysOk)
        /\ last' = [ NoOp EXCEPT !.op = "alloc_plain", !.ne0 = e[1], !.ne1 = e[2],
                                 !.recOk = recOk, !.sysOk = sysOk,
                                 !.pre = tensor_pool ]
        /\ UNCHANGED <<tensor_pool, zeroAllocNull, served, codecVars, kernelVars>>

Combine(name, r, a, b, junk, recOk, sysOk) ==
    /\ tensor_pool' = r.pool
    /\ ret' = r.tensor
    /\ served' = ServedAfter(r.tensor)
    /\ last' = [ NoOp EXCEPT !.op = name, !.a = a, !.b = b, !.junk = junk,
                             !.recOk = recOk, !.sysOk = sysOk,
                             !.pre = tensor_pool, !.writes = r.writes,
                             !.bread = r.bread ]
    /\ UNCHANGED <<zeroAllocNull, codecVars, kernelVars>>

MulSimd ==
    \E c \in CombineCalls, ok \in BOOLEAN :
        Combine("mul_simd",
                ggml_mul_simd(tensor_pool, c[1], c[2], c[3], AllGot, ok, ok),
                c[1], c[2], c[3], ok, ok)

AddSimd ==
    \E c \in CombineCalls, ok \in BOOLEAN :
        Combine("add_simd",
                ggml_add_simd(tensor_pool, c[1], c[2], c[3], AllGot, ok, ok),
                c[1], c[2], c[3], ok, ok)

Mul ==
    \E c \in CombineCalls, ok \in BOOLEAN :
        Combine("mul",
                ggml_mul(tensor_pool, c[1], c[2], c[3], ok, ok),
                c[1], c[2], c[3], ok, ok)

Add ==
    \E c \in CombineCalls, ok \in BOOLEAN :
        Combine("add",
                ggml_add(tensor_pool, c[1], c[2], c[3], ok, ok),
                c[1], c[2], c[3], ok, ok)

NextPool == AllocOptimized \/ AllocPlain

SpecPool == InitPool /\ [][NextPool]_vars

(***************************************************************************)
(* SpecCombine: the elementwise kernels, vectorized (on the pool-backed    *)
(* allocator) and scalar (on the plain allocator).                         *)
(***************************************************************************)
NextCombine == MulSimd \/ AddSimd \/ Mul \/ Add

SpecCombine == InitPool /\ [][NextCombine]_vars

(***************************************************************************)
(* cognitive-tensors.c: cognitive_pattern_match.  Tensor values here are   *)
(* small integers, on which the float products and sums are exact.         *)
(***************************************************************************)
\* pi < pattern->ne[0] && (i + pi) < data->ne[0]
pi_continues(pattern, data, i, pi) ==
    pi < pattern.ne[1] /\ (i + pi) < data.ne[1]

\* pj < pattern->ne[1] && (j + pj) < data->ne[1]
pj_continues_wrong(pattern, data, j, pj) ==
    pj < pattern.ne[2]

pj_continues(pattern, data, j, pj) ==
    pj < pattern.ne[2] /\ (j + pj) < data.ne[2]

\* The innermost loop; acc = [correlation, dreads, preads], the reads being
\* the cells <<row, column, linear index>> read from data and from pattern
RECURSIVE match_pj(_, _, _, _, _, _, _, _)
match_pj(pattern, data, junk, i, j, pi, pj, acc) ==
    IF ~pj_continues(pattern, data, j, pj) THEN acc
    ELSE LET pidx == pi * pattern.ne[2] + pj
             didx == (i + pi) * data.ne[2] + (j + pj)
         IN  match_pj(pattern, data, junk, i, j, pi, pj + 1,
                 [ correlation |-> acc.correlation
                                     + Rd(pattern, pidx, junk) * Rd(data, didx, junk),
                   dreads      |-> acc.dreads \cup { <<i + pi, j + pj, didx>> },
                   preads      |-> acc.preads \cup { <<pi, pj, pidx>> } ])

RECURSIVE match_pi(_, _, _, _, _, _, _)
match_pi(pattern, data, junk, i, j, pi, acc) ==
    IF ~pi_continues(pattern, data, i, pi) THEN acc
    ELSE match_pi(pattern, data, junk, i, j, pi + 1,
                  match_pj(pattern, data, junk, i, j, pi, 0, acc))

\* The body of the loop over j: correlation starts at 0.0f and is stored
\* to result_data[i * data->ne[1] + j]; st = [v, dreads, preads]
match_cell(pattern, data, junk, i, j, st) ==
    LET acc == match_pi(pattern, data, junk, i, j, 0,
                        [ correlation |-> 0, dreads |-> st.dreads,
                          preads |-> st.preads ])
    IN  [ v      |-> [st.v EXCEPT ![i * data.ne[2] + j + 1] = acc.correlation],
          dreads |-> acc.dreads,
          preads |-> acc.preads ]

RECURSIVE match_j(_, _, _, _, _, _)
match_j(pattern, data, junk, i, j, st) ==
    IF j >= data.ne[2] THEN st
    ELSE match_j(pattern, data, junk, i, j + 1,
                 match_cell(pattern, data, junk, i, j, st))

RECURSIVE match_i(_, _, _, _, _)
match_i(pattern, data, junk, i, st) ==
    IF i >= data.ne[1] THEN st
    ELSE match_i(pattern, data, junk, i + 1,
                 match_j(pattern, data, junk, i, 0, st))

\* cognitive_pattern_match.  The result of ggml_new_tensor_2d is not tested:
\* when the allocation fails the store through match_result->data is a null
\* dereference, reported here as crash.
cognitive_pattern_match(pattern, data, junk, recOk, sysOk) ==
    LET t == ggml_new_tensor_2d(data.ne[1], data.ne[2], recOk, sysOk)
        st == match_i(pattern, data, junk, 0,
                      [v |-> t.data, dreads |-> {}, preads |-> {}])
    IN  IF t.isnull
        THEN [tensor |-> NullTensor, crash |-> TRUE, dreads |-> {}, preads |-> {}]
        ELSE [ tensor |-> [t EXCEPT !.data = st.v], crash |-> FALSE,
               dreads |-> st.dreads, preads |-> st.preads ]

(***************************************************************************)
(* SpecMatch: a caller obtains data tensors and correlates patterns with   *)
(* the one it holds.  The code reads inside its tensors only, so the junk  *)
(* seed of an out-of-buffer read is fixed.                                 *)
(***************************************************************************)
\* Greatest extent of a pattern and of a data tensor
MaxPattern == 3
MaxData == 3

PatternShapes == (1..MaxPattern) \X (1..MaxPattern)
DataShapes == (1..MaxData) \X (1..MaxData)

\* A tensor with values in -1..3
MatchTensor(shape, seed) ==
    [ isnull |-> FALSE,
      ne     |-> <<shape[1], shape[2], 1, 1>>,
      origin |-> "sys",
      block  |-> -1,
      data   |-> [k \in 1..(shape[1] * shape[2]) |-> ((seed + 2 * k) % 5) - 1] ]

\* A tensor holding the value c in every cell
UniformTensor(shape, c) ==
    [ isnull |-> FALSE,
      ne     |-> <<shape[1], shape[2], 1, 1>>,
      origin |-> "sys",
      block  |-> -1,
      data   |-> [k \in 1..(shape[1] * shape[2]) |-> c] ]

Patterns == { MatchTensor(sh, s) : sh \in PatternShapes, s \in {0, 2} }

DataTensors ==
    { MatchTensor(sh, s) : sh \in DataShapes, s \in Seeds }
    \cup { UniformTensor(sh, 2) : sh \in DataShapes }

NoOpMatch ==
    [ op |-> "none", pattern |-> NullTensor, data |-> NullTensor, junk |-> 0,
      crash |-> FALSE, dreads |-> {}, preads |-> {}, recOk |-> TRUE ]

InitMatch ==
    /\ tensor_pool = PoolZero
    /\ zeroAllocNull \in BOOLEAN
    /\ served = <<>>
    /\ ret = NullTensor
    /\ hg = NullHg
    /\ tensor = NullTensor
    /\ encSrc = NullHg
    /\ kernels = NoKernels
    /\ idlog = <<>>
    /\ last = NoOpMatch

\* The caller drops the result it holds and obtains a data tensor of some
\* shape and contents
ObtainData ==
    /\ tensor' \in DataTensors
    /\ ret' = NullTensor
    /\ last' = [NoOpMatch EXCEPT !.op = "obtain"]
    /\ UNCHANGED <<tensor_pool, zeroAllocNull, served, hg, encSrc, kernelVars>>

\* cognitive_pattern_match(ctx, pattern, tensor)
PatternMatch ==
    /\ ~tensor.isnull
    /\ \E pattern \in Patterns, recOk \in BOOLEAN :
        LET r == cognitive_pattern_match(pattern, tensor, 0, recOk, recOk)
        IN  /\ ret' = r.tensor
            /\ last' = [ NoOpMatch EXCEPT !.op = "match", !.pattern = pattern,
                                          !.data = tensor,
                                          !.crash = r.crash,
                                          !.dreads = r.dreads,
                                          !.preads = r.preads,
                                          !.recOk = recOk ]
            /\ UNCHANGED <<tensor_pool, zeroAllocNull, served, codecVars,
                           kernelVars>>

NextMatch == ObtainData \/ PatternMatch

SpecMatch == InitMatch /\ [][NextMatch]_vars

(***************************************************************************)
(* cognitive-tensors.c: the hypergraph and its codec.                      *)
(* Arrays are 0-based in the code and 1-based sequences here: element k of *)
(* an array is x[k + 1].                                                   *)
(***************************************************************************)
\* The float 1.0f; the integer x stands for the float x / ONE
ONE == 2 ^ 12
HALF == ONE \div 2

\* x * 0.5f
Half(x) == x \div 2

\* create_hypergraph.  recOk: malloc of the record succeeds; sysOk: the
\* three callocs have memory.  node_count * node_count is a size_t product
\* and wraps.  A hypergraph returned has its three arrays present: the code
\* returns NULL if any of them is not.
create_hypergraph_wrong(node_count, link_count, recOk, sysOk) ==
    IF ~recOk THEN NullHg
    ELSE IF /\ CallocOk(node_count, sysOk)
            /\ CallocOk(link_count, sysOk)
            /\ CallocOk(SizeT(node_count * node_count), sysOk)
    THEN [ isnull           |-> FALSE,
           node_count       |-> node_count,
           link_count       |-> link_count,
           node_weights     |-> Zeros(node_count),
           link_weights     |-> Zeros(node_count),
           adjacency_matrix |-> Zeros(SizeT(node_count * node_count)) ]
    ELSE NullHg

create_hypergraph(node_count, link_count, recOk, sysOk) ==
    IF ~recOk THEN NullHg
    ELSE IF /\ CallocOk(node_count, sysOk)
            /\ CallocOk(link_count, sysOk)
            /\ CallocOk(SizeT(node_count * node_count), sysOk)
    THEN [ isnull           |-> FALSE,
           node_count       |-> node_count,
           link_count       |-> link_count,
           node_weights     |-> Zeros(node_count),
           link_weights     |-> Zeros(link_count),
           adjacency_matrix |-> Zeros(SizeT(node_count * node_count)) ]
    ELSE NullHg

\* destroy_hypergraph: the arrays and the record are freed
destroy_hypergraph(h) == NullHg

\* weight_factor = (node_weights[i] + node_weights[j]) * 0.5f
weight_factor_wrong(h, i, j) == Half(h.node_weights[i + 1] + h.node_weights[i + 1])

weight_factor(h, i, j) == Half(h.node_weights[i + 1] + h.node_weights[j + 1])

\* for (j ...) tensor_data[i * node_count + j] = adj_value * weight_factor;
RECURSIVE encode_row(_, _, _, _)
encode_row(h, i, j, data) ==
    IF j >= h.node_count THEN data
    ELSE LET k == i * h.node_count + j
             adj_value == h.adjacency_matrix[k + 1]
         IN  encode_row(h, i, j + 1,
                        [data EXCEPT ![k + 1] = adj_value * weight_factor(h, i, j)])

\* for (i ...) for (j ...) ...
RECURSIVE encode_rows(_, _, _)
encode_rows(h, i, data) ==
    IF i >= h.node_count THEN data
    ELSE encode_rows(h, i + 1, encode_row(h, i, 0, data))

\* encode_hypergraph_to_tensor.  The result of ggml_new_tensor_2d is not
\* tested: when the allocation fails the store through tensor->data is a
\* null dereference, reported here as crash.
encode_hypergraph_to_tensor(h, recOk, sysOk) ==
    IF h.isnull THEN [tensor |-> NullTensor, crash |-> FALSE]
    ELSE LET t == ggml_new_tensor_2d(h.node_count, h.node_count, recOk, sysOk)
         IN  IF t.isnull THEN [tensor |-> NullTensor, crash |-> TRUE]
             ELSE [ tensor |-> [t EXCEPT !.data = encode_rows(h, 0, t.data)],
                    crash  |-> FALSE ]

\* The values a tensor cell may hold, and the cell an out-of-buffer read
\* may yield
CellVals == << (3 * ONE) \div 4, 0, HALF, -(ONE \div 4), ONE, ONE \div 4 >>

CellAt(seed, k) == CellVals[((seed + k) % Len(CellVals)) + 1]

\* tensor_data[idx]: a read beyond the buffer is undefined and modelled as
\* yielding an arbitrary cell value
RdCell(t, idx, junk) ==
    IF idx < Len(t.data) THEN t.data[idx + 1] ELSE CellAt(junk, idx)

\* min_size = (hg->node_count < (size_t)tensor->ne[0]) ? node_count : ne[0]
min_size_wrong(t, h) == h.node_count

min_size(t, h) ==
    IF h.node_count < SizeT(t.ne[1]) THEN h.node_count ELSE SizeT(t.ne[1])

\* (value > 0.5f) ? 1 : 0
adj_bit_wrong(value) == IF value >= HALF THEN 1 ELSE 0

adj_bit(value) == IF value > HALF THEN 1 ELSE 0

\* if (value > 0.0f) { node_weights[i] = ...; node_weights[j] = ...; }
update_weights_wrong(w, i, j, value) ==
    IF value > 0
    THEN [w EXCEPT ![i + 1] = Half(w[i + 1] + value),
                   ![j + 1] = Half(w[j + 1] + value)]
    ELSE w

update_weights(w, i, j, value) ==
    IF value > 0
    THEN LET w1 == [w EXCEPT ![i + 1] = Half(w[i + 1] + value)]
         IN  [w1 EXCEPT ![j + 1] = Half(w1[j + 1] + value)]
    ELSE w

\* The body of the inner loop for cell (i, j); st = [hg, reads]
decode_cell(t, st, i, j, junk) ==
    LET idx == i * t.ne[2] + j
        value == RdCell(t, idx, junk)
        h == st.hg
    IN  [ hg    |-> [ h EXCEPT
                        !.adjacency_matrix[i * h.node_count + j + 1] = adj_bit(value),
                        !.node_weights = update_weights(h.node_weights, i, j, value) ],
          reads |-> Append(st.reads, <<i, j, idx>>) ]

RECURSIVE decode_row(_, _, _, _, _, _)
decode_row(t, st, i, j, m, junk) ==
    IF j >= m THEN st
    ELSE decode_row(t, decode_cell(t, st, i, j, junk), i, j + 1, m, junk)

RECURSIVE decode_rows(_, _, _, _, _)
decode_rows(t, st, i, m, junk) ==
    IF i >= m THEN st
    ELSE decode_rows(t, decode_row(t, st, i, 0, m, junk), i + 1, m, junk)

\* decode_tensor_to_hypergraph: the return code, the hypergraph after the
\* call and the cells read, in order
decode_tensor_to_hypergraph(t, h, junk) ==
    IF t.isnull \/ h.isnull THEN [rc |-> -1, hg |-> h, reads |-> <<>>]
    ELSE LET st == decode_rows(t, [hg |-> h, reads |-> <<>>], 0, min_size(t, h), junk)
         IN  [rc |-> 0, hg |-> st.hg, reads |-> st.reads]

(***************************************************************************)
(* SpecCodec: a caller creates a hypergraph, fills it in, encodes it,      *)
(* obtains tensors and decodes them into the hypergraph it holds.          *)
(***************************************************************************)
\* Greatest node count of a hypergraph
MaxNodes == 2
\* Greatest extent of a tensor handed to decode
MaxExtent == 3

\* Offsets into CellVals that fill a tensor (or an out-of-buffer read)
TensorSeeds == {0, 1, 3}

NodeCounts == 0..MaxNodes
LinkCounts == {0, 2}

\* Node weights a caller writes: 0.5, 0.75 and -0.25
WeightVals == {HALF, (3 * ONE) \div 4, -(ONE \div 4)}

\* Weight vectors a caller writes: the uniform ones and two mixed ones
WeightVecs(n) ==
    { [i \in 1..n |-> w] : w \in WeightVals }
    \cup { [i \in 1..n |-> IF i = 1 THEN (3 * ONE) \div 4 ELSE HALF],
           [i \in 1..n |-> IF i = 1 THEN 0 ELSE ONE] }

\* Adjacency matrices a caller writes into a hypergraph it is going to
\* encode: all of them
AdjMatrices(n) == [1..(n * n) -> {0, 1}]

\* What a caller that already holds a tensor writes into the hypergraph it
\* is going to decode into: all zero, all one, or the diagonal, with two
\* of the weight vectors
TargetAdj(n) ==
    { [k \in 1..(n * n) |-> b] : b \in {0, 1} }
    \cup { [k \in 1..(n * n) |-> IF (k - 1) \div n = (k - 1) % n THEN 1 ELSE 0] }

TargetWeights(n) ==
    { [i \in 1..n |-> IF i = 1 THEN (3 * ONE) \div 4 ELSE HALF],
      [i \in 1..n |-> -(ONE \div 4)] }

NoOpCodec ==
    [ op |-> "none", pre |-> NullHg, arg |-> NullTensor, rc |-> 0,
      reads |-> <<>>, crash |-> FALSE,
      junk |-> 0, node_count |-> 0, link_count |-> 0,
      recOk |-> TRUE, sysOk |-> TRUE ]

InitCodec ==
    /\ tensor_pool = PoolZero
    /\ zeroAllocNull \in BOOLEAN
    /\ served = <<>>
    /\ ret = NullTensor
    /\ hg = NullHg
    /\ tensor = NullTensor
    /\ encSrc = NullHg
    /\ kernels = NoKernels
    /\ idlog = <<>>
    /\ last = NoOpCodec

poolVars == <<tensor_pool, zeroAllocNull, served, ret, kernels, idlog>>

CreateHypergraph ==
    \E n \in NodeCounts, l \in LinkCounts, recOk \in BOOLEAN :
        /\ hg' = create_hypergraph(n, l, recOk, recOk)
        /\ last' = [ NoOpCodec EXCEPT !.op = "create",
                                      !.node_count = n, !.link_count = l,
                                      !.recOk = recOk, !.sysOk = recOk ]
        /\ UNCHANGED <<poolVars, tensor, encSrc>>

\* The caller writes node weights, link weights and adjacency entries of
\* the hypergraph it holds (as create_hypergraph_tensor_from_atomspace does)
Populate ==
    /\ ~hg.isnull
    /\ \E w \in IF tensor.isnull THEN WeightVecs(hg.node_count)
                  ELSE TargetWeights(hg.node_count),
          adj \in IF tensor.isnull THEN AdjMatrices(hg.node_count)
                    ELSE TargetAdj(hg.node_count) :
          hg' = [ hg EXCEPT !.node_weights = w,
                            !.link_weights = [i \in 1..hg.link_count |-> ONE \div 4],
                            !.adjacency_matrix = adj ]
    /\ last' = [NoOpCodec EXCEPT !.op = "populate"]
    /\ UNCHANGED <<poolVars, tensor, encSrc>>

Encode ==
    /\ last.op # "decode"
    /\ \E recOk \in BOOLEAN :
        LET r == encode_hypergraph_to_tensor(hg, recOk, recOk)
        IN  /\ tensor' = r.tensor
            /\ encSrc' = IF r.tensor.isnull THEN NullHg ELSE hg
            /\ last' = [ NoOpCodec EXCEPT !.op = "encode", !.pre = hg,
                                          !.crash = r.crash,
                                          !.recOk = recOk, !.sysOk = recOk ]
            /\ UNCHANGED <<poolVars, hg>>

\* The caller obtains a tensor of some shape and contents from elsewhere
ObtainTensor ==
    /\ last.op # "decode"
    /\ \E ne0 \in 1..MaxExtent, ne1 \in 1..MaxExtent, seed \in TensorSeeds :
        /\ tensor' = [ isnull |-> FALSE,
                       ne     |-> <<ne0, ne1, 1, 1>>,
                       origin |-> "sys",
                       block  |-> -1,
                       data   |-> [k \in 1..(ne0 * ne1) |-> CellAt(seed, k - 1)] ]
        /\ encSrc' = NullHg
        /\ last' = [NoOpCodec EXCEPT !.op = "obtain"]
        /\ UNCHANGED <<poolVars, hg>>

\* decode_tensor_to_hypergraph(tensor, hg).  The model follows a hypergraph
\* through one decode: after it the caller creates or fills in a hypergraph
\* before it encodes or decodes again.
Decode ==
    /\ last.op # "decode"
    /\ \E junk \in TensorSeeds :
          LET r == decode_tensor_to_hypergraph(tensor, hg, junk)
          IN  /\ hg' = r.hg
              /\ last' = [ NoOpCodec EXCEPT !.op = "decode", !.pre = hg,
                                            !.arg = tensor,
                                            !.rc = r.rc, !.reads = r.reads,
                                            !.junk = junk ]
    /\ UNCHANGED <<poolVars, tensor, encSrc>>

NextCodec == CreateHypergraph \/ Populate \/ Encode \/ ObtainTensor \/ Decode

SpecCodec == InitCodec /\ [][NextCodec]_vars

(***************************************************************************)
(* SpecHypergraph: callers create hypergraphs of small and of very large   *)
(* sizes and destroy them.                                                 *)
(***************************************************************************)
\* The least node count whose square does not fit a size_t, and the least
\* one whose adjacency matrix of 4-byte entries no allocator can serve
WrapNodes == 2 ^ (SizeBits \div 2)
HugeNodes == WrapNodes \div 2

WideNodeCounts == NodeCounts \cup {HugeNodes, WrapNodes}
WideLinkCounts == 0..(MaxNodes + 1)

CreateAnyHypergraph ==
    \E n \in WideNodeCounts, l \in WideLinkCounts,
       recOk \in BOOLEAN, sysOk \in BOOLEAN :
        /\ hg' = create_hypergraph(n, l, recOk, sysOk)
        /\ last' = [ NoOpCodec EXCEPT !.op = "create",
                                      !.node_count = n, !.link_count = l,
                                      !.recOk = recOk, !.sysOk = sysOk ]
        /\ UNCHANGED <<poolVars, tensor, encSrc>>

DestroyHypergraph ==
    /\ hg' = destroy_hypergraph(hg)
    /\ last' = [NoOpCodec EXCEPT !.op = "destroy"]
    /\ UNCHANGED <<poolVars, tensor, encSrc>>

NextHypergraph == CreateAnyHypergraph \/ DestroyHypergraph

SpecHypergraph == InitCodec /\ [][NextHypergraph]_vars

(***************************************************************************)
(* cognitive-tensors.c: the cognitive kernel.                              *)
(* An attention weight is a float that is only stored and compared: the    *)
(* integer x stands for x / AttOne, and NaN for a float NaN, which every   *)
(* ordered comparison answers with false.                                  *)
(***************************************************************************)
AttOne == 10
NaN == -(2 ^ 20)

\* IEEE < and > on attention weights
FLess(x, y) == x # NaN /\ y # NaN /\ x < y
FGreater(x, y) == x # NaN /\ y # NaN /\ x > y

\* create_cognitive_kernel.  addr: what malloc(sizeof(cognitive_kernel_t))
\* returned (0: NULL); recOk, sysOk: the allocations of the tensor field.
\* Returns the heap after the call and the address returned.
kernel_tensor_field(shape, shape_dims, recOk, sysOk) ==
    IF shape_dims >= 2
    THEN ggml_new_tensor_2d(shape[1], shape[2], recOk, sysOk)
    ELSE ggml_new_tensor_2d(shape[1], 1, recOk, sysOk)

create_cognitive_kernel(heap, addr, shape, shape_dims, attention_weight, recOk, sysOk) ==
    IF addr = 0 THEN [heap |-> heap, kernel |-> 0]
    ELSE [ heap   |-> [ heap EXCEPT ![addr] =
                          [ live             |-> TRUE,
                            tensor_field     |->
                                kernel_tensor_field(shape, shape_dims, recOk, sysOk),
                            attention_weight |-> attention_weight,
                            meta_level       |-> 0,
                            kernel_id        |-> addr ] ],
           kernel |-> addr ]

\* destroy_cognitive_kernel: the tensor field and the record are freed
destroy_cognitive_kernel(heap, k) ==
    IF k # 0 THEN [heap EXCEPT ![k] = FreeSlot] ELSE heap

\* The test of update_kernel_attention that rejects a call
update_rejects(k, new_weight) ==
    k = 0 \/ FLess(new_weight, 0) \/ FGreater(new_weight, AttOne)

\* update_kernel_attention: the heap after the call and the return code
update_kernel_attention(heap, k, new_weight) ==
    IF update_rejects(k, new_weight)
    THEN [heap |-> heap, rc |-> -1]
    ELSE [heap |-> [heap EXCEPT ![k].attention_weight = new_weight], rc |-> 0]

(***************************************************************************)
(* SpecKernel: callers create, update and destroy kernels; a caller may    *)
(* also write the meta_level field of a kernel it holds.                   *)
(***************************************************************************)
\* -0.1, 0.0, 0.9, 1.0, 1.1 and NaN
AttVals == {-1, 0, 9, AttOne, 11, NaN}

\* Shapes a caller asks a kernel for
KernelShapes == { <<2, 1>>, <<-1, 1>> }

MetaLevels == {0, 2}

Live == { a \in KAddrs : kernels[a].live }

NoOpKernel ==
    [ op |-> "none", k |-> 0, w |-> 0, rc |-> 0, pre |-> FreeSlot,
      shape |-> <<1, 1>>, shape_dims |-> 2, recOk |-> TRUE ]

InitKernel ==
    /\ tensor_pool = PoolZero
    /\ zeroAllocNull \in BOOLEAN
    /\ served = <<>>
    /\ ret = NullTensor
    /\ hg = NullHg
    /\ tensor = NullTensor
    /\ encSrc = NullHg
    /\ kernels = NoKernels
    /\ idlog = <<>>
    /\ last = NoOpKernel

nonKernelVars == <<tensor_pool, zeroAllocNull, served, ret, hg, tensor, encSrc>>

\* malloc returns NULL or the address of any record that is not live
CreateKernel ==
    /\ Len(idlog) < MaxCreates
    /\ \E addr \in (KAddrs \ Live) \cup {0}, shape \in KernelShapes,
          shape_dims \in {1, 2}, w \in {8}, recOk \in BOOLEAN :
          LET r == create_cognitive_kernel(kernels, addr, shape, shape_dims, w,
                                           recOk, recOk)
          IN  /\ kernels' = r.heap
              /\ idlog' = IF r.kernel # 0
                          THEN Append(idlog, r.heap[r.kernel].kernel_id)
                          ELSE idlog
              /\ last' = [ NoOpKernel EXCEPT !.op = "create", !.k = r.kernel,
                                             !.w = w, !.shape = shape,
                                             !.shape_dims = shape_dims,
                                             !.recOk = recOk ]
    /\ UNCHANGED nonKernelVars

UpdateAttention ==
    /\ \E k \in Live \cup {0}, w \in AttVals :
          LET r == update_kernel_attention(kernels, k, w)
          IN  /\ kernels' = r.heap
              /\ last' = [ NoOpKernel EXCEPT !.op = "update", !.k = k, !.w = w,
                                             !.rc = r.rc,
                                             !.pre = IF k = 0 THEN FreeSlot
                                                     ELSE kernels[k] ]
    /\ UNCHANGED <<nonKernelVars, idlog>>

\* The caller writes kernel->meta_level
SetMetaLevel ==
    /\ \E k \in Live, lvl \in MetaLevels :
          /\ kernels' = [kernels EXCEPT ![k].meta_level = lvl]
          /\ last' = [NoOpKernel EXCEPT !.op = "set_meta", !.k = k]
    /\ UNCHANGED <<nonKernelVars, idlog>>

DestroyKernel ==
    /\ \E k \in Live \cup {0} :
          /\ kernels' = destroy_cognitive_kernel(kernels, k)
          /\ last' = [NoOpKernel EXCEPT !.op = "destroy", !.k = k]
    /\ UNCHANGED <<nonKernelVars, idlog>>

NextKernel == CreateKernel \/ UpdateAttention \/ SetMetaLevel \/ DestroyKernel

SpecKernel == InitKernel /\ [][NextKernel]_vars

(***************************************************************************)
(* Claims about the pool and the allocators.                               *)
(***************************************************************************)
FreeSet(p) == { p.free_blocks[i] : i \in 0..(p.free_count - 1) }
AllocatedSet(p) == { p.allocated_blocks[i] : i \in 0..(p.allocated_count - 1) }

Initialized(p) == p.blocks[0]
Exhausted(p) ==
    Initialized(p) /\ p.free_count = 0 /\ p.allocated_count = TENSOR_POOL_SIZE

\* C1: once the pool is initialized, after any sequence of allocations the
\* free indices free_blocks[0..free_count-1] and the allocated indices
\* allocated_blocks[0..allocated_count-1] are disjoint and
\* free_count + allocated_count = TENSOR_POOL_SIZE.
C1_PoolAccounting ==
    Initialized(tensor_pool) =>
        /\ FreeSet(tensor_pool) \cap AllocatedSet(tensor_pool) = {}
        /\ tensor_pool.free_count + tensor_pool.allocated_count = TENSOR_POOL_SIZE

C1_Witness ==
    /\ last.op = "alloc_opt"
    /\ Initialized(tensor_pool)
    /\ tensor_pool.allocated_count = 2
    /\ tensor_pool.free_count = TENSOR_POOL_SIZE - 2
    /\ ~ret.isnull /\ ret.origin = "pool"

\* C2: once TENSOR_POOL_SIZE allocations of at most TENSOR_BLOCK_SIZE bytes
\* have exhausted the pool, the next allocation leaves the pool's accounting
\* as it was (free_count 0, allocated_count TENSOR_POOL_SIZE, the allocated
\* index list, total_allocated and peak_usage), and a request with positive
\* extents that the system allocator serves is answered with a tensor whose
\* buffer is a direct allocation, not a pool block.
C2_ExhaustedFallback ==
    (last.op = "alloc_opt" /\ Exhausted(last.pre)
        /\ Len(served) = TENSOR_POOL_SIZE) =>
        /\ tensor_pool = last.pre
        /\ tensor_pool.free_count = 0
        /\ tensor_pool.allocated_count = TENSOR_POOL_SIZE
        /\ (last.ne0 > 0 /\ last.ne1 > 0 /\ last.recOk /\ last.sysOk) =>
               (~ret.isnull /\ ret.origin = "sys")

C2_Witness ==
    /\ last.op = "alloc_opt" /\ Exhausted(last.pre)
    /\ Len(served) = TENSOR_POOL_SIZE
    /\ last.ne0 = 1 /\ last.ne1 = 1
    /\ ~ret.isnull /\ ret.origin = "sys"

\* C10 (as claimed): an allocation request with a zero or negative extent
\* yields no tensor and takes no block from the pool.
C10_RejectsNonPositiveExtents ==
    (last.op \in {"alloc_opt", "alloc_plain"} /\ (last.ne0 <= 0 \/ last.ne1 <= 0)) =>
        /\ ret.isnull
        /\ Initialized(last.pre) =>
               /\ tensor_pool.free_count = last.pre.free_count
               /\ tensor_pool.allocated_count = last.pre.allocated_count

\* C15 (as claimed): after any sequence of tensor allocations, any two
\* tensors the pool-backed allocator served from the pool have different
\* block indices, and a block index that was in the allocated list before
\* a call is not in the free list after it.
C15_NoBlockTwice ==
    /\ \A m \in 1..Len(served), n \in 1..Len(served) :
          m # n => served[m] # served[n]
    /\ last.op = "alloc_opt" =>
          AllocatedSet(last.pre) \cap FreeSet(tensor_pool) = {}

(***************************************************************************)
(* Claims about the elementwise kernels.                                   *)
(***************************************************************************)
CombineOps == {"mul_simd", "add_simd", "mul", "add"}

\* C3 (as claimed): an elementwise multiply or add of two tensors whose
\* extents differ returns NULL and reads no element of b beyond b's buffer
\* of extent0 * extent1 elements.
C3_RejectsShapeMismatch ==
    (last.op \in CombineOps /\ last.a.ne # last.b.ne) =>
        /\ ret.isnull
        /\ last.bread < Len(last.b.data)

SimdOps == {"mul_simd", "add_simd"}

OpOf(name) == IF name \in {"mul_simd", "mul"} THEN "mul" ELSE "add"

\* A vectorized call on two tensors of the same extents that returned a
\* tensor
SimdDone ==
    /\ last.op \in SimdOps
    /\ last.a.ne = last.b.ne
    /\ ~ret.isnull

\* C12: for two tensors of the same extents with N = extent0 * extent1
\* elements, the vectorized multiply and add store to every index 0..N-1
\* exactly once, and the result has the extents of the operands and holds
\* result[i] = a[i] op b[i] at every index, which is also what the scalar
\* ggml_mul / ggml_add return for the same operands; N may be less than 8,
\* a multiple of 8, or neither.
C12_SimdEqualsScalar ==
    SimdDone =>
        LET a == last.a
            b == last.b
            N == a.ne[1] * a.ne[2]
            scalar == combine_scalar(OpOf(last.op), last.pre, a, b, last.junk,
                                     TRUE, TRUE).tensor
        IN  /\ ret.ne = a.ne
            /\ Len(ret.data) = N
            /\ last.writes = [i \in 1..N |-> 1]
            /\ \A i \in 1..N :
                  ret.data[i] = ApplyOp(OpOf(last.op), a.data[i], b.data[i])
            /\ ~scalar.isnull
            /\ ret.data = scalar.data

\* A group of 8 and a remainder: N = 9, with nonzero results in both parts
C12_Witness ==
    /\ SimdDone
    /\ last.op = "mul_simd"
    /\ last.a.ne = <<3, 3, 1, 1>>
    /\ last.writes = [i \in 1..9 |-> 1]
    /\ ret.data[7] # 0 /\ ret.data[9] # 0
    /\ ret.data[9] = last.a.data[9] * last.b.data[9]

\* The cell (r, c) of a tensor, 0-based, row-major
At(t, r, c) == t.data[r * t.ne[2] + c + 1]

\* The sum of f[x] over the finite set S
RECURSIVE SumOver(_, _)
SumOver(S, f) ==
    IF S = {} THEN 0
    ELSE LET x == CHOOSE y \in S : TRUE
         IN  f[x] + SumOver(S \ {x}, f)

\* The pattern offsets (pi, pj) that keep (i + pi, j + pj) within data
Offsets(pattern, data, i, j) ==
    { o \in (0..(pattern.ne[1] - 1)) \X (0..(pattern.ne[2] - 1)) :
        i + o[1] < data.ne[1] /\ j + o[2] < data.ne[2] }

Matched == last.op = "match" /\ ~last.crash

\* C13: cognitive_pattern_match(pattern, data), when it returns, returns a
\* tensor with the extents of data whose cell (i, j) is the sum of
\* pattern[pi, pj] * data[i + pi, j + pj] over exactly the pattern offsets
\* (pi, pj) with (i + pi, j + pj) inside data; every cell it reads lies
\* inside its tensor (row, column and linear index), so nothing wraps
\* around; and a 1 x 1 pattern of value v on a data tensor that holds c
\* everywhere gives v * c everywhere.
C13_PatternMatchClipped ==
    Matched =>
        LET p == last.pattern
            d == last.data
            cells == (0..(d.ne[1] - 1)) \X (0..(d.ne[2] - 1))
        IN  /\ ~ret.isnull
            /\ ret.ne = d.ne
            /\ Len(ret.data) = d.ne[1] * d.ne[2]
            /\ \A c \in cells :
                  LET offs == Offsets(p, d, c[1], c[2])
                  IN  At(ret, c[1], c[2]) =
                        SumOver(offs,
                                [ o \in offs |->
                                    At(p, o[1], o[2])
                                      * At(d, c[1] + o[1], c[2] + o[2]) ])
            /\ \A rd \in last.dreads :
                  /\ rd[1] < d.ne[1] /\ rd[2] < d.ne[2]
                  /\ rd[3] = rd[1] * d.ne[2] + rd[2]
                  /\ rd[3] < Len(d.data)
            /\ \A rd \in last.preads :
                  /\ rd[1] < p.ne[1] /\ rd[2] < p.ne[2]
                  /\ rd[3] < Len(p.data)
            /\ (p.ne = <<1, 1, 1, 1>>
                  /\ \A k \in 1..Len(d.data) : d.data[k] = d.data[1]) =>
                   \A k \in 1..Len(ret.data) : ret.data[k] = p.data[1] * d.data[1]

\* A 2 x 2 pattern on 2 x 3 data: the last column and the last row are
\* clipped, the first cell takes all four offsets
C13_Witness ==
    /\ Matched
    /\ last.pattern.ne = <<2, 2, 1, 1>>
    /\ last.data.ne = <<2, 3, 1, 1>>
    /\ Cardinality(Offsets(last.pattern, last.data, 0, 0)) = 4
    /\ Cardinality(Offsets(last.pattern, last.data, 0, 2)) = 2
    /\ Cardinality(Offsets(last.pattern, last.data, 1, 2)) = 1
    /\ At(ret, 0, 2) # 0
    /\ At(ret, 0, 2) # At(last.pattern, 0, 0) * At(last.data, 0, 2)
    /\ At(ret, 1, 2) = At(last.pattern, 0, 0) * At(last.data, 1, 2)

(***************************************************************************)
(* Claims about the hypergraph codec.                                      *)
(***************************************************************************)
Min(a, b) == IF a < b THEN a ELSE b

\* adjacency[i, j] and node_weights[i] of a hypergraph, 0-based
Adj(h, i, j) == h.adjacency_matrix[i * h.node_count + j + 1]
Weight(h, i) == h.node_weights[i + 1]

Decoded == last.op = "decode" /\ ~last.arg.isnull /\ ~last.pre.isnull

\* C4: decode with a present tensor and hypergraph of any sizes returns 0
\* and changes only the first m = min(node_count, extent0) rows and columns:
\* adjacency entries (i, j) with i >= m or j >= m, node weights of index
\* >= m, all link weights, node_count and link_count are as before, and the
\* tensor is as before.
C4_DecodeFrame ==
    Decoded =>
        LET pre == last.pre
            n == pre.node_count
            m == Min(n, last.arg.ne[1])
        IN  /\ last.rc = 0
            /\ hg.node_count = n
            /\ hg.link_count = pre.link_count
            /\ hg.link_weights = pre.link_weights
            /\ Len(hg.adjacency_matrix) = n * n
            /\ Len(hg.node_weights) = n
            /\ \A i \in 0..(n - 1), j \in 0..(n - 1) :
                  (i >= m \/ j >= m) => Adj(hg, i, j) = Adj(pre, i, j)
            /\ \A i \in 0..(n - 1) : i >= m => Weight(hg, i) = Weight(pre, i)
            /\ tensor = last.arg

C4_Witness ==
    /\ Decoded
    /\ last.pre.node_count = 2 /\ last.arg.ne[1] = 1
    /\ hg # last.pre
    /\ Adj(hg, 1, 1) = 1 /\ Adj(hg, 0, 1) = 1
    /\ Weight(hg, 1) # 0

\* The cell (i, j) of a tensor whose rows hold at least j + 1 cells
Cell(t, i, j) == t.data[i * t.ne[2] + j + 1]

\* What the claim says one visited cell of value v does to a hypergraph
RefCell(h, i, j, v) ==
    LET wi == IF v > 0 THEN (Weight(h, i) + v) \div 2 ELSE Weight(h, i)
        wj == IF v > 0
              THEN ((IF j = i THEN wi ELSE Weight(h, j)) + v) \div 2
              ELSE Weight(h, j)
    IN  [ h EXCEPT
            !.adjacency_matrix =
                [ k \in 1..Len(h.adjacency_matrix) |->
                    IF k = i * h.node_count + j + 1
                    THEN (IF v > HALF THEN 1 ELSE 0)
                    ELSE h.adjacency_matrix[k] ],
            !.node_weights =
                [ k \in 1..Len(h.node_weights) |->
                    IF k = j + 1 THEN wj
                    ELSE IF k = i + 1 THEN wi
                    ELSE h.node_weights[k] ] ]

\* The hypergraph after the first c cells of the m x m region, taken in
\* row-major order
RECURSIVE RefAfter(_, _, _, _)
RefAfter(t, h, m, c) ==
    IF c = 0 THEN h
    ELSE LET i == (c - 1) \div m
             j == (c - 1) % m
         IN  RefCell(RefAfter(t, h, m, c - 1), i, j, Cell(t, i, j))

\* C5: decode visits the cells (i, j) of the m x m region in row-major
\* order; a cell of value v sets adjacency[i, j] to 1 iff v > 0.5 and else to
\* 0 and, only if v > 0, replaces node_weights[i] and then node_weights[j] by
\* (weight + v) / 2, the weight being the one earlier cells left; so (i, j)
\* and (j, i) both contribute, and a cell with v <= 0 changes no weight.
\* (The cells (i, j) of the region exist when the tensor's rows hold at
\* least m cells.)
C5_DecodeCells ==
    (Decoded /\ last.arg.ne[2] >= Min(last.pre.node_count, last.arg.ne[1])) =>
        LET m == Min(last.pre.node_count, last.arg.ne[1])
        IN  hg = RefAfter(last.arg, last.pre, m, m * m)

C5_Witness ==
    /\ Decoded
    /\ last.pre.node_count = 2 /\ last.arg.ne[1] >= 2 /\ last.arg.ne[2] >= 2
    /\ Cell(last.arg, 0, 1) > 0 /\ Cell(last.arg, 1, 0) > 0
    /\ Cell(last.arg, 0, 0) > 0 /\ Cell(last.arg, 1, 1) <= 0
    /\ Weight(hg, 0) # Weight(last.pre, 0)
    /\ Weight(hg, 1) # Weight(last.pre, 1)

UniformWeight(h, w) == \A i \in 0..(h.node_count - 1) : Weight(h, i) = w

\* C6: round trip.  For a hypergraph src with 0/1 adjacency and the same
\* weight w on all nodes, and a hypergraph of the same node count with any
\* adjacency and weights, decode(encode(src), hg) leaves hg's adjacency
\* matrix equal to src's when w > 0.5 and all zero when w <= 0.5.
C6_RoundTrip ==
    (/\ Decoded
     /\ ~encSrc.isnull
     /\ encSrc.node_count = last.pre.node_count
     /\ \A k \in 1..Len(encSrc.adjacency_matrix) :
            encSrc.adjacency_matrix[k] \in {0, 1}) =>
        \A w \in WeightVals \cup {0, ONE} :
            UniformWeight(encSrc, w) =>
                hg.adjacency_matrix =
                    IF w > HALF THEN encSrc.adjacency_matrix
                    ELSE Zeros(Len(encSrc.adjacency_matrix))

C6_Witness ==
    /\ Decoded
    /\ ~encSrc.isnull
    /\ encSrc.node_count = 2 /\ last.pre.node_count = 2
    /\ UniformWeight(encSrc, (3 * ONE) \div 4)
    /\ encSrc.adjacency_matrix = <<0, 1, 1, 0>>
    /\ last.pre.adjacency_matrix = <<1, 0, 0, 1>>
    /\ hg.adjacency_matrix = <<0, 1, 1, 0>>

\* C7: encode of a hypergraph with N nodes returns an N x N tensor whose
\* cell (i, j) is adjacency[i, j] * (node_weights[i] + node_weights[j]) / 2;
\* a cell of a pair with adjacency 0 is 0 whatever the weights, and the
\* hypergraph is as before.
C7_EncodeCells ==
    (last.op = "encode" /\ ~last.pre.isnull /\ ~last.crash) =>
        LET h == last.pre
            n == h.node_count
        IN  /\ ~tensor.isnull
            /\ tensor.ne = <<n, n, 1, 1>>
            /\ Len(tensor.data) = n * n
            /\ \A i \in 0..(n - 1), j \in 0..(n - 1) :
                  /\ Cell(tensor, i, j) =
                        Adj(h, i, j) * ((Weight(h, i) + Weight(h, j)) \div 2)
                  /\ Adj(h, i, j) = 0 => Cell(tensor, i, j) = 0
            /\ hg = h

C7_Witness ==
    /\ last.op = "encode" /\ ~last.pre.isnull /\ ~last.crash
    /\ hg.node_count = 2
    /\ Weight(hg, 0) # Weight(hg, 1)
    /\ Adj(hg, 0, 1) = 1 /\ Adj(hg, 1, 0) = 0
    /\ Cell(tensor, 0, 1) # 0

\* C16 (as claimed): decode reads only cells that belong to the tensor: for
\* every tensor shape (extent0, extent1), those with extent1 less than
\* min(node_count, extent0) included, every cell (i, j) it reads has
\* j < extent1 and linear index i * extent1 + j < extent0 * extent1.
C16_DecodeReadsInside ==
    Decoded =>
        \A k \in 1..Len(last.reads) :
            LET rd == last.reads[k]
            IN  /\ rd[2] < last.arg.ne[2]
                /\ rd[3] < last.arg.ne[1] * last.arg.ne[2]

\* Sizes are valid when the N x N adjacency matrix has a size: N * N is a
\* size_t
ValidSizes(N, L) == N * N < SizeMod

Created == last.op = "create" /\ ~hg.isnull

\* C14: for all valid (N, L), a create_hypergraph(N, L) that returns a
\* hypergraph returns one with node_count = N, link_count = L, N node
\* weights, L link weights and N * N adjacency entries, all of them 0 (the
\* three arrays of a hypergraph returned are present).
C14_CreateZeroInitialised ==
    (Created /\ ValidSizes(last.node_count, last.link_count)) =>
        LET N == last.node_count
            L == last.link_count
        IN  /\ hg.node_count = N
            /\ hg.link_count = L
            /\ hg.node_weights = Zeros(N)
            /\ hg.link_weights = Zeros(L)
            /\ hg.adjacency_matrix = Zeros(N * N)

C14_Witness ==
    /\ Created
    /\ last.node_count = 2 /\ last.link_count = 3
    /\ hg.node_weights = <<0, 0>>
    /\ hg.link_weights = <<0, 0, 0>>
    /\ hg.adjacency_matrix = <<0, 0, 0, 0>>

(***************************************************************************)
(* Claims about the cognitive kernel.                                      *)
(***************************************************************************)
\* 0 <= w <= 1 as real numbers (a NaN is no number in [0, 1])
InUnit(w) == w # NaN /\ 0 <= w /\ w <= AttOne

\* C8 (as claimed): update_kernel_attention(kernel, w) returns 0 and sets
\* attention_weight to w exactly when the kernel is present and
\* 0 <= w <= 1; otherwise it returns -1 and leaves attention_weight,
\* meta_level, the tensor field and the identity as they were.
C8_UpdateAcceptsExactlyUnit ==
    last.op = "update" =>
        IF last.k # 0 /\ InUnit(last.w)
        THEN /\ last.rc = 0
             /\ kernels[last.k] = [last.pre EXCEPT !.attention_weight = last.w]
        ELSE /\ last.rc = -1
             /\ last.k # 0 => kernels[last.k] = last.pre

\* C9 (as claimed): create_cognitive_kernel returns either NULL or a kernel
\* with meta_level 0, the attention weight passed and a tensor field that
\* is present and has the shape asked for.
C9_CreateAllOrNothing ==
    last.op = "create" =>
        \/ last.k = 0
        \/ LET kr == kernels[last.k]
           IN  /\ kr.meta_level = 0
               /\ kr.attention_weight = last.w
               /\ ~kr.tensor_field.isnull
               /\ kr.tensor_field.ne =
                     <<last.shape[1],
                       IF last.shape_dims >= 2 THEN last.shape[2] ELSE 1, 1, 1>>

\* C11 (as claimed): over any sequence of create and destroy operations no
\* two kernels ever created receive the same kernel_id, a kernel created
\* after an earlier one was destroyed included.
C11_UniqueKernelIds ==
    \A m \in 1..Len(idlog), n \in 1..Len(idlog) :
        m # n => idlog[m] # idlog[n]

====
